---- MODULE Spec2Model ----
(***************************************************************************)
(* CarSeer frontend: the CarPredictionForm component (the cascade of       *)
(* make / model / trim / year selections, the catalog fetches it starts,   *)
(* the valuation request) and the PredictionChart projection.              *)
(*                                                                         *)
(* The repository holds two revisions of CarPredictionForm; the variable   *)
(* variant says which one is mounted: "v1" renders the error string and    *)
(* leaves the chart to App, "v2" embeds the chart and has no error         *)
(* element.  Everything else is common to both and modelled once.          *)
(*                                                                         *)
(* React state is modelled by one variable per useState cell.  A handler   *)
(* and the effects its state change triggers form one action: the effects  *)
(* run when the render commits, before the next event is handled.  Each    *)
(* awaited axios call is split at the await: the part up to the await      *)
(* belongs to the action that starts the call, the continuation is the     *)
(* action that delivers the response (or the failure).                     *)
(*                                                                         *)
(* JavaScript numbers in the projection are modelled by exact rationals    *)
(* over multi-limb naturals (IEEE rounding is abstracted away).            *)
(***************************************************************************)
EXTENDS Integers, Sequences, FiniteSets, Bags, TLC

\* ------------------------------------------------------------------ bounds

\* Catalog fetches (model lists and trim lists together) outstanding at once.
MaxInFlight == 2

\* Valuation requests outstanding at once.
MaxValuationsInFlight == 2

\* ------------------------------------------------------- string helpers

UpperCaseLetters == "ABCDEFGHIJKLMNOPQRSTUVWXYZ"
LowerCaseLetters == "abcdefghijklmnopqrstuvwxyz"

CharAt(s, i) == SubSeq(s, i, i)

\* String.prototype.toLowerCase, one character.
LowerChar(c) ==
    IF \E i \in 1..Len(UpperCaseLetters) : CharAt(UpperCaseLetters, i) = c
    THEN LET i == CHOOSE j \in 1..Len(UpperCaseLetters) : CharAt(UpperCaseLetters, j) = c
         IN  CharAt(LowerCaseLetters, i)
    ELSE c

RECURSIVE toLowerCase(_)
toLowerCase(s) ==
    IF Len(s) = 0 THEN ""
    ELSE LowerChar(CharAt(s, 1)) \o toLowerCase(SubSeq(s, 2, Len(s)))

RECURSIVE trimStart(_)
trimStart(s) ==
    IF Len(s) > 0 /\ CharAt(s, 1) = " " THEN trimStart(SubSeq(s, 2, Len(s))) ELSE s

RECURSIVE trimEnd(_)
trimEnd(s) ==
    IF Len(s) > 0 /\ CharAt(s, Len(s)) = " " THEN trimEnd(SubSeq(s, 1, Len(s) - 1)) ELSE s

\* String.prototype.trim
trim(s) == trimEnd(trimStart(s))

\* String.prototype.startsWith
startsWith(s, p) == Len(s) >= Len(p) /\ SubSeq(s, 1, Len(p)) = p

\* String.prototype.substring(n)
substring(s, n) == SubSeq(s, n + 1, Len(s))

\* Collation order of the characters that occur in names (root locale:
\* space, digits, then letters; case is a lower-level difference).
Collation == " 0123456789abcdefghijklmnopqrstuvwxyz"

CharRank(c) ==
    LET l == LowerChar(c)
    IN  IF \E i \in 1..Len(Collation) : CharAt(Collation, i) = l
        THEN CHOOSE i \in 1..Len(Collation) : CharAt(Collation, i) = l
        ELSE 0

\* a.localeCompare(b) < 0
RECURSIVE localeLess(_, _)
localeLess(a, b) ==
    IF Len(b) = 0 THEN FALSE
    ELSE IF Len(a) = 0 THEN TRUE
    ELSE IF CharRank(CharAt(a, 1)) # CharRank(CharAt(b, 1))
         THEN CharRank(CharAt(a, 1)) < CharRank(CharAt(b, 1))
         ELSE localeLess(SubSeq(a, 2, Len(a)), SubSeq(b, 2, Len(b)))

\* Array.prototype.sort with the localeCompare comparator (stable).
RECURSIVE InsertSorted(_, _)
InsertSorted(sorted, x) ==
    IF sorted = <<>> THEN <<x>>
    ELSE IF localeLess(x, Head(sorted)) THEN <<x>> \o sorted
    ELSE <<Head(sorted)>> \o InsertSorted(Tail(sorted), x)

RECURSIVE sortNames(_)
sortNames(names) ==
    IF names = <<>> THEN <<>>
    ELSE InsertSorted(sortNames(SubSeq(names, 1, Len(names) - 1)), names[Len(names)])

\* One element of the .map(...) of fetchModels: trim the name and strip the
\* make from its start when it is there (compared case-insensitively).
StripMake(rawName, make) ==
    LET name == trim(rawName)
    IN  IF startsWith(toLowerCase(name), toLowerCase(make))
        THEN trim(substring(name, Len(make)))
        ELSE name

\* .filter(model => model.name)
FilterNonEmpty(names) == SelectSeq(names, LAMBDA n : n # "")

\* modelsData of fetchModels: map, filter, sort.  A model is represented by
\* its name (id and make_id are carried along unchanged and never read).
NormaliseModels(results, make) ==
    sortNames(FilterNonEmpty([i \in 1..Len(results) |-> StripMake(results[i], make)]))

\* ------------------------------------------- numbers of the projection

\* A natural number of any size: its limbs, least significant first, each
\* below LimbBase, without leading zero limbs (zero is the empty sequence).
LimbBase == 100 * 100

RECURSIVE BigOfNat(_)
BigOfNat(n) ==
    IF n = 0 THEN <<>> ELSE <<n % LimbBase>> \o BigOfNat(n \div LimbBase)

RECURSIVE BigAddC(_, _, _)
BigAddC(a, b, carry) ==
    IF a = <<>> /\ b = <<>>
    THEN (IF carry = 0 THEN <<>> ELSE <<carry>>)
    ELSE LET x == IF a = <<>> THEN 0 ELSE Head(a)
             y == IF b = <<>> THEN 0 ELSE Head(b)
             t == x + y + carry
         IN  <<t % LimbBase>> \o
             BigAddC(IF a = <<>> THEN <<>> ELSE Tail(a),
                     IF b = <<>> THEN <<>> ELSE Tail(b),
                     t \div LimbBase)

BigAdd(a, b) == BigAddC(a, b, 0)

\* a times one limb
RECURSIVE BigMulLimbC(_, _, _)
BigMulLimbC(a, d, carry) ==
    IF a = <<>>
    THEN (IF carry = 0 THEN <<>> ELSE <<carry>>)
    ELSE LET t == Head(a) * d + carry
         IN  <<t % LimbBase>> \o BigMulLimbC(Tail(a), d, t \div LimbBase)

BigMulLimb(a, d) == IF d = 0 THEN <<>> ELSE BigMulLimbC(a, d, 0)

RECURSIVE BigMul(_, _)
BigMul(a, b) ==
    IF a = <<>> \/ b = <<>> THEN <<>>
    ELSE LET rest == BigMul(Tail(a), b)
         IN  BigAdd(BigMulLimb(b, Head(a)),
                    IF rest = <<>> THEN <<>> ELSE <<0>> \o rest)

RECURSIVE BigLess(_, _)
BigLess(a, b) ==
    IF Len(a) # Len(b) THEN Len(a) < Len(b)
    ELSE IF a = <<>> THEN FALSE
    ELSE IF a[Len(a)] # b[Len(b)] THEN a[Len(a)] < b[Len(b)]
    ELSE BigLess(SubSeq(a, 1, Len(a) - 1), SubSeq(b, 1, Len(b) - 1))

\* A non-negative rational num/den (den > 0), not necessarily in lowest
\* terms: equality and order are by cross-multiplication.
Rat(n, d) == [num |-> BigOfNat(n), den |-> BigOfNat(d)]

RatMul(x, y) == [num |-> BigMul(x.num, y.num), den |-> BigMul(x.den, y.den)]

RatEq(x, y) == BigMul(x.num, y.den) = BigMul(y.num, x.den)

RatLess(x, y) == BigLess(BigMul(x.num, y.den), BigMul(y.num, x.den))

RatZero == Rat(0, 1)

\* Math.pow(base, n) for a natural exponent n
RECURSIVE MathPow(_, _)
MathPow(base, n) == IF n = 0 THEN Rat(1, 1) ELSE RatMul(base, MathPow(base, n - 1))

\* ------------------------------------------------ optional values

\* null / undefined, and a value that is there
Null == <<>>
Some(v) == <<v>>
Get(o) == o[1]

\* ------------------------------------------------------ environment

\* The makes the user picks among: entries of commonCarMakes.
Makes == {"Kia", "Ram"}

\* response.data.Results of the catalog service, by make: the Model_Name of
\* each entry, as the service spells it.
CatalogResults(make) ==
    CASE make = "Kia" -> <<"Kia Rio", "kia">>
      [] make = "Ram" -> <<" 1500 ">>
      [] OTHER -> <<>>

Range(seq) == {seq[i] : i \in 1..Len(seq)}

\* response.data.trims of the trims endpoint, by make and model: the trims
\* of a model it has trims for, and no trims field otherwise.
TrimsBackend(make, model) ==
    CASE make = "Kia" /\ model = "Rio" -> Some(<<"LX">>)
      [] OTHER -> Null

conditions == <<"Excellent", "Good", "Fair", "Poor">>

\* What the user types or picks in the fields that start no fetch: the two
\* text fields, empty initially, are filled in once; the condition, which
\* only the request reads, is left as it is initially.
MileageInputs == {"42000"}
ZipInputs == {"90210"}
ConditionInputs == {conditions[2]}

\* Model names as a catalog response may spell them: bare, prefixed with a
\* make in either case, prefixed twice, padded, and the make alone.
NameSamples == {"Kia", "kia Rio", "Kia Kia Rio", " Forte ", "Ram 1500", "2500"}

\* Catalog responses of up to three names.
CatalogSamples ==
    {<<>>} \cup {<<a>> : a \in NameSamples}
           \cup {<<a, b>> : a \in NameSamples, b \in NameSamples}
           \cup {<<a, b, c>> : a \in NameSamples, b \in NameSamples,
                                c \in NameSamples}

\* What may be found in the two text fields when the form is submitted: the
\* Mileage input is a number input, so its value is empty or a decimal
\* literal; the Zip Code input takes any five characters.
MileageTexts == {"", "0", "007", "42000", "12.5", "-5"}
ZipTexts == {"", "90210", "02134", "ab 1"}

\* The positions of the year dropdown, from its top, the user picks among.
YearPicks == {1, 2}

\* A ValuationResult as the chart reads it: mean_value and price_range are
\* optional.  Amounts are whole dollars.
Valuation(predicted, mean, range) ==
    [predicted_value |-> predicted, mean_value |-> mean, price_range |-> range]

\* response.data of the valuation endpoint: what a successful request may
\* return.
PredictResponses ==
    { Valuation(17955, Some(18500), Some([low |-> 16000, high |-> 19500])) }

\* Two results that differ in every part, the second without the optional
\* parts.
ResultSamples == PredictResponses \cup {Valuation(9000, Null, Null)}

\* A wider range of valuation results, for the projection: amounts of 0, of
\* one dollar and large, each optional part absent, zero and positive.
ChartResponses ==
    { Valuation(p, m, r) :
        p \in {0, 1, 17955, 250000},
        m \in {Null, Some(0), Some(18500)},
        r \in {Null, Some([low |-> 16000, high |-> 19500]),
                     Some([low |-> 0, high |-> 1])} }

\* The calendar years a session may run in (new Date().getFullYear()).
CalendarYears == {2026}
ChartCalendarYears == {1999, 2026}

ErrModels == "Failed to load car models. Please try again."
ErrTrims == "Failed to load trim options. Please try again."
ErrPredict == "Failed to get prediction. Please try again."

\* ------------------------------------------------------------ state

VARIABLES
    variant,          \* which revision of CarPredictionForm is mounted
    currentYear,      \* new Date().getFullYear()
    formData,         \* useState: the VehicleDescriptor being edited
    loading,          \* useState: a valuation request is awaited
    error,            \* useState: the error message
    models,           \* useState: names offered by the Model dropdown
    trims,            \* useState: names offered by the Trim dropdown
    years,            \* useState: years offered by the Year dropdown
    loadingModels,    \* useState
    loadingTrims,     \* useState
    predictionData,   \* useState: the ValuationResult held, or Null
    modelFetches,     \* bag: catalog GETs awaited, by the make each was issued for
    trimFetches,      \* bag: trim GETs awaited, by the <<make, model>> of each
    predictInFlight   \* valuation POSTs awaited

vars == <<variant, currentYear, formData, loading, error, models, trims, years,
          loadingModels, loadingTrims, predictionData,
          modelFetches, trimFetches, predictInFlight>>

\* ------------------------------------------------- PredictionChart

\* Array.from({ length: 10 }, ...): the points of the projection
ProjectionLength == 10

\* Math.pow(0.85, yearOffset)
depreciationLinear(yearOffset) ==
    IF 15 * yearOffset >= 100 THEN RatZero ELSE Rat(100 - 15 * yearOffset, 100)

depreciationTenPercent(yearOffset) == MathPow(Rat(90, 100), yearOffset)

depreciation(yearOffset) == MathPow(Rat(85, 100), yearOffset)

\* `x ? ... : undefined` on an optional number: there and not 0
Truthy(opt) == opt # Null /\ Get(opt) # 0

yearLabelNext(yearNow, yearOffset) == yearNow + yearOffset + 1

\* year: currentYear + yearOffset
yearLabel(yearNow, yearOffset) == yearNow + yearOffset

\* The callback of Array.from: the projection point at one index.
ChartPoint(data, yearNow, index) ==
    LET yearOffset == index
        times(v) == RatMul(Rat(v, 1), depreciation(yearOffset))
    IN  [year |-> yearLabel(yearNow, yearOffset),
         predictedValue |-> times(data.predicted_value),
         meanValue |-> IF Truthy(data.mean_value)
                       THEN Some(times(Get(data.mean_value))) ELSE Null,
         lowRange |-> IF data.price_range # Null
                      THEN Some(times(Get(data.price_range).low)) ELSE Null,
         highRange |-> IF data.price_range # Null
                       THEN Some(times(Get(data.price_range).high)) ELSE Null]

\* chartData: index k of the array is element k + 1 of the sequence.
ChartData(data, yearNow) ==
    [i \in 1..ProjectionLength |-> ChartPoint(data, yearNow, i - 1)]

\* What a render of PredictionChart computes from its props: nothing for
\* null data (the placeholder is returned first), the projection otherwise.
PredictionChart(data, yearNow) ==
    IF data = Null THEN <<>> ELSE ChartData(Get(data), yearNow)

LinesRangeAlways(data) ==
    {"predictedValue", "lowRange", "highRange"}
        \cup (IF Truthy(data.mean_value) THEN {"meanValue"} ELSE {})

\* The dataKey of each <Line> the LineChart is given: the predicted value
\* always, {data.mean_value && <Line/>}, {data.price_range && <>...</>}.
Lines(data) ==
    {"predictedValue"}
        \cup (IF Truthy(data.mean_value) THEN {"meanValue"} ELSE {})
        \cup (IF data.price_range # Null THEN {"lowRange", "highRange"} ELSE {})

\* --------------------------------------------- CarPredictionForm

\* Array.from({ length: 30 }, ...): the entries of the year dropdown
YearListLength == 30

RECURSIVE InsertDescending(_, _)
InsertDescending(sorted, y) ==
    IF sorted = <<>> \/ sorted[Len(sorted)] >= y THEN Append(sorted, y)
    ELSE Append(InsertDescending(SubSeq(sorted, 1, Len(sorted) - 1), y),
                sorted[Len(sorted)])

\* .sort((a, b) => b.year - a.year)
RECURSIVE sortYearsDescending(_)
sortYearsDescending(ys) ==
    IF ys = <<>> THEN <<>>
    ELSE InsertDescending(sortYearsDescending(SubSeq(ys, 1, Len(ys) - 1)), ys[Len(ys)])

YearsDataAscending(yearNow) ==
    [i \in 1..YearListLength |-> yearNow - (YearListLength - i)]

\* yearsData of the years effect
YearsData(yearNow) ==
    sortYearsDescending([i \in 1..YearListLength |-> yearNow - (i - 1)])

\* useState initial value of formData
InitialFormData(yearNow) ==
    [make |-> "", model |-> "", trim |-> "", year |-> yearNow,
     mileage |-> "", condition |-> "Good", zip_code |-> ""]

NewFormDataKeepsYear(prev, name, value, yearNow) ==
    LET newData == [prev EXCEPT ![name] = value]
    IN  IF name = "make"
        THEN [newData EXCEPT !.model = "", !.trim = ""]
        ELSE IF name = "model"
        THEN [newData EXCEPT !.trim = "", !.year = yearNow]
        ELSE newData

NewFormDataMakeKeepsModel(prev, name, value, yearNow) ==
    LET newData == [prev EXCEPT ![name] = value]
    IN  IF name = "make"
        THEN [newData EXCEPT !.year = yearNow]
        ELSE IF name = "model"
        THEN [newData EXCEPT !.trim = "", !.year = yearNow]
        ELSE newData

NewFormDataModelKeepsTrim(prev, name, value, yearNow) ==
    LET newData == [prev EXCEPT ![name] = value]
    IN  IF name = "make"
        THEN [newData EXCEPT !.model = "", !.trim = "", !.year = yearNow]
        ELSE IF name = "model"
        THEN [newData EXCEPT !.year = yearNow]
        ELSE newData

\* The updater handleChange passes to setFormData.  (The later revision
\* keeps the year as its decimal string; it is modelled by its number,
\* which is what parseInt reads back at submission.)
NewFormData(prev, name, value, yearNow) ==
    LET newData == [prev EXCEPT ![name] = value]
    IN  IF name = "make"
        THEN [newData EXCEPT !.model = "", !.trim = "", !.year = yearNow]
        ELSE IF name = "model"
        THEN [newData EXCEPT !.trim = "", !.year = yearNow]
        ELSE newData

\* disabled= of the Model, Trim and Year dropdowns and of the submit button
modelSelectDisabled == formData.make = "" \/ loadingModels
trimSelectDisabled == formData.model = "" \/ loadingTrims
yearSelectDisabled == variant = "v1" /\ formData.model = ""
submitDisabledIgnoresModel ==
    loading \/ formData.make = "" \/ formData.year = 0

submitDisabledWhileWaitingEnabled ==
    formData.make = "" \/ formData.model = "" \/ formData.year = 0

submitDisabled ==
    loading \/ formData.make = "" \/ formData.model = "" \/ formData.year = 0

DecimalDigits == "0123456789"

IsDigit(c) == \E i \in 1..Len(DecimalDigits) : CharAt(DecimalDigits, i) = c

\* The length of the longest prefix of s made of decimal digits.
RECURSIVE DigitPrefixLen(_)
DigitPrefixLen(s) ==
    IF Len(s) = 0 \/ ~IsDigit(CharAt(s, 1)) THEN 0
    ELSE 1 + DigitPrefixLen(SubSeq(s, 2, Len(s)))

\* The later revision's form is validated by the browser on submission: its
\* Mileage input (type number, min 0, step 1 by default) and its ZIP Code
\* input (pattern [0-9]*) are required.  The earlier one is noValidate.
formValid ==
    variant = "v2" =>
        /\ formData.mileage # ""
        /\ DigitPrefixLen(formData.mileage) = Len(formData.mileage)
        /\ formData.zip_code # ""
        /\ DigitPrefixLen(formData.zip_code) = Len(formData.zip_code)

RECURSIVE parseDigits(_, _)
parseDigits(s, acc) ==
    IF Len(s) = 0 THEN acc
    ELSE LET d == CHOOSE i \in 0..9 : CharAt(DecimalDigits, i + 1) = CharAt(s, 1)
         IN  parseDigits(SubSeq(s, 2, Len(s)), 10 * acc + d)

\* parseFloat of the value of a number input, which the browser keeps to a
\* decimal literal: an optional sign, digits, an optional fraction.  The
\* number read is num / den.
parseFloat(s) ==
    LET negative == Len(s) > 0 /\ CharAt(s, 1) = "-"
        body == IF negative THEN substring(s, 1) ELSE s
        n == DigitPrefixLen(body)
        hasFraction == Len(body) > n /\ CharAt(body, n + 1) = "."
        rest == IF hasFraction THEN SubSeq(body, n + 2, Len(body)) ELSE ""
        f == DigitPrefixLen(rest)
        magnitude == parseDigits(SubSeq(body, 1, n) \o SubSeq(rest, 1, f), 0)
    IN  [num |-> IF negative THEN 0 - magnitude ELSE magnitude, den |-> 10 ^ f]

predictRequestZeroMileage(fd) ==
    [fd EXCEPT !.year = fd.year,
               !.mileage = IF fd.mileage # "" THEN Some(parseFloat(fd.mileage))
                           ELSE Some([num |-> 0, den |-> 1])]

\* The body handleSubmit posts: the form data, the year as an integer, the
\* mileage as a number, or null when the field is empty.
predictRequest(fd) ==
    [fd EXCEPT !.year = fd.year,
               !.mileage = IF fd.mileage # "" THEN Some(parseFloat(fd.mileage))
                           ELSE Null]

\* {error && <Typography color="error">}: only the earlier revision has it.
errorShown == variant = "v1" /\ error # ""

\* {(predictionData || loading) && <PredictionChart .../>}
chartMounted == predictionData # Null \/ loading

FieldNames == {"make", "model", "trim", "year", "mileage", "condition", "zip_code"}

\* The values a field's control lets the user enter in the current state.
Offered(name) ==
    CASE name = "make" -> Makes \cup {""}
      [] name = "model" ->
            IF modelSelectDisabled THEN {} ELSE Range(models) \cup {""}
      [] name = "trim" ->
            IF trimSelectDisabled THEN {} ELSE Range(trims) \cup {""}
      [] name = "year" ->
            IF yearSelectDisabled THEN {}
            ELSE {years[i] : i \in YearPicks \cap DOMAIN years}
      [] name = "mileage" -> MileageInputs
      [] name = "condition" -> ConditionInputs
      [] name = "zip_code" -> ZipInputs

\* Catalog fetches awaited.
InFlight == BagCardinality(modelFetches) + BagCardinality(trimFetches)

\* The fetchModels effect, run when formData.make changed: up to the await.
fetchModelsEffect(newData, run) ==
    IF ~run
    THEN UNCHANGED <<models, loadingModels, modelFetches>>
    ELSE IF newData.make = ""
    THEN /\ models' = <<>>
         /\ UNCHANGED <<loadingModels, modelFetches>>
    ELSE /\ loadingModels' = TRUE
         /\ modelFetches' = modelFetches (+) SetToBag({newData.make})
         /\ UNCHANGED models

fetchTrimsEffectForMakeAlone(newData, run) ==
    IF ~run
    THEN UNCHANGED <<trims, loadingTrims, trimFetches>>
    ELSE IF newData.make = ""
    THEN /\ trims' = <<>>
         /\ UNCHANGED <<loadingTrims, trimFetches>>
    ELSE /\ loadingTrims' = TRUE
         /\ trimFetches' =
                trimFetches (+) SetToBag({<<newData.make, newData.model>>})
         /\ UNCHANGED trims

\* The fetchTrims effect, run when formData.make or formData.model changed:
\* up to the await.
fetchTrimsEffect(newData, run) ==
    IF ~run
    THEN UNCHANGED <<trims, loadingTrims, trimFetches>>
    ELSE IF newData.make = "" \/ newData.model = ""
    THEN /\ trims' = <<>>
         /\ UNCHANGED <<loadingTrims, trimFetches>>
    ELSE /\ loadingTrims' = TRUE
         /\ trimFetches' =
                trimFetches (+) SetToBag({<<newData.make, newData.model>>})
         /\ UNCHANGED trims

\* The years effect, run when formData.model changed.
yearsEffect(newData, run) ==
    IF ~run
    THEN UNCHANGED years
    ELSE IF newData.model # ""
    THEN years' = YearsData(currentYear)
    ELSE years' = <<>>

\* A change event of one field carrying value: handleChange, then the
\* effects whose dependencies changed.  A control fires onChange only for a
\* new value.
changeEvent(name, value) ==
    /\ value # formData[name]
    /\ LET newData == NewFormData(formData, name, value, currentYear)
           makeChanged == newData.make # formData.make
           modelChanged == newData.model # formData.model
           startsFetch ==
               \/ makeChanged /\ newData.make # ""
               \/ (makeChanged \/ modelChanged)
                    /\ newData.make # "" /\ newData.model # ""
       IN  /\ startsFetch => InFlight < MaxInFlight
           /\ formData' = newData
           /\ fetchModelsEffect(newData, makeChanged)
           /\ fetchTrimsEffect(newData, makeChanged \/ modelChanged)
           /\ yearsEffect(newData, modelChanged)
    /\ UNCHANGED <<variant, currentYear, loading, error, predictionData,
                   predictInFlight>>

\* A change event with one of the values the field's control offers.
handleChange(name, value) ==
    /\ value \in Offered(name)
    /\ changeEvent(name, value)

\* fetchModels after the await, the response having arrived with the names
\* results: try, finally.
fetchModelsDeliveredClearsError(make, results) ==
    /\ BagIn(make, modelFetches)
    /\ modelFetches' = modelFetches (-) SetToBag({make})
    /\ models' = NormaliseModels(results, make)
    /\ error' = ""
    /\ loadingModels' = FALSE
    /\ UNCHANGED <<variant, currentYear, formData, loading, trims, years,
                   loadingTrims, predictionData, trimFetches, predictInFlight>>

fetchModelsDelivered(make, results) ==
    /\ BagIn(make, modelFetches)
    /\ modelFetches' = modelFetches (-) SetToBag({make})
    /\ models' = NormaliseModels(results, make)
    /\ loadingModels' = FALSE
    /\ UNCHANGED <<variant, currentYear, formData, loading, error, trims, years,
                   loadingTrims, predictionData, trimFetches, predictInFlight>>

\* The same, with the names the catalog service has for the make.
fetchModelsResolved(make) == fetchModelsDelivered(make, CatalogResults(make))

\* fetchModels after the await, the request having failed: catch, finally.
fetchModelsRejectedKeepsList(make) ==
    /\ BagIn(make, modelFetches)
    /\ modelFetches' = modelFetches (-) SetToBag({make})
    /\ error' = ErrModels
    /\ loadingModels' = FALSE
    /\ UNCHANGED <<variant, currentYear, formData, loading, models, trims, years,
                   loadingTrims, predictionData, trimFetches, predictInFlight>>

fetchModelsRejectedRetries(make) ==
    /\ BagIn(make, modelFetches)
    /\ error' = ErrModels
    /\ models' = <<>>
    /\ loadingModels' = TRUE
    /\ UNCHANGED <<variant, currentYear, formData, loading, trims, years,
                   loadingTrims, predictionData, modelFetches, trimFetches,
                   predictInFlight>>

fetchModelsRejected(make) ==
    /\ BagIn(make, modelFetches)
    /\ modelFetches' = modelFetches (-) SetToBag({make})
    /\ error' = ErrModels
    /\ models' = <<>>
    /\ loadingModels' = FALSE
    /\ UNCHANGED <<variant, currentYear, formData, loading, trims, years,
                   loadingTrims, predictionData, trimFetches, predictInFlight>>

\* fetchTrims after the await, the response having arrived: try, finally.
fetchTrimsResolved(key) ==
    /\ BagIn(key, trimFetches)
    /\ trimFetches' = trimFetches (-) SetToBag({key})
    /\ LET data == TrimsBackend(key[1], key[2])
       IN  trims' = IF data # Null THEN Get(data) ELSE <<>>
    /\ loadingTrims' = FALSE
    /\ UNCHANGED <<variant, currentYear, formData, loading, error, models, years,
                   loadingModels, predictionData, modelFetches, predictInFlight>>

\* fetchTrims after the await, the request having failed: catch, finally.
fetchTrimsRejected(key) ==
    /\ BagIn(key, trimFetches)
    /\ trimFetches' = trimFetches (-) SetToBag({key})
    /\ error' = ErrTrims
    /\ trims' = <<>>
    /\ loadingTrims' = FALSE
    /\ UNCHANGED <<variant, currentYear, formData, loading, models, years,
                   loadingModels, predictionData, modelFetches, predictInFlight>>

\* A submit event: handleSubmit up to the await.  The button must be
\* enabled and the form valid for the browser to deliver the event.
handleSubmit ==
    /\ ~submitDisabled
    /\ formValid
    /\ predictInFlight < MaxValuationsInFlight
    /\ loading' = TRUE
    /\ error' = ""
    /\ predictInFlight' = predictInFlight + 1
    /\ UNCHANGED <<variant, currentYear, formData, models, trims, years,
                   loadingModels, loadingTrims, predictionData, modelFetches,
                   trimFetches>>

handleSubmitResolvedMerges(data) ==
    /\ predictInFlight > 0
    /\ predictInFlight' = predictInFlight - 1
    /\ predictionData' =
          IF predictionData = Null THEN Some(data)
          ELSE Some([data EXCEPT
                  !.mean_value = IF data.mean_value = Null
                                 THEN Get(predictionData).mean_value
                                 ELSE data.mean_value,
                  !.price_range = IF data.price_range = Null
                                  THEN Get(predictionData).price_range
                                  ELSE data.price_range])
    /\ loading' = FALSE
    /\ UNCHANGED <<variant, currentYear, formData, error, models, trims, years,
                   loadingModels, loadingTrims, modelFetches, trimFetches>>

\* handleSubmit after the await, the response having arrived: try, finally.
handleSubmitResolved(data) ==
    /\ predictInFlight > 0
    /\ predictInFlight' = predictInFlight - 1
    /\ predictionData' = Some(data)
    /\ loading' = FALSE
    /\ UNCHANGED <<variant, currentYear, formData, error, models, trims, years,
                   loadingModels, loadingTrims, modelFetches, trimFetches>>

\* handleSubmit after the await, the request having failed (no response, or
\* a status outside 2xx): catch, finally.
handleSubmitRejectedStaysLoading ==
    /\ predictInFlight > 0
    /\ predictInFlight' = predictInFlight - 1
    /\ error' = ErrPredict
    /\ UNCHANGED <<variant, currentYear, formData, loading, models, trims, years,
                   loadingModels, loadingTrims, predictionData,
                   modelFetches, trimFetches>>

handleSubmitRejected ==
    /\ predictInFlight > 0
    /\ predictInFlight' = predictInFlight - 1
    /\ error' = ErrPredict
    /\ loading' = FALSE
    /\ UNCHANGED <<variant, currentYear, formData, models, trims, years,
                   loadingModels, loadingTrims, predictionData,
                   modelFetches, trimFetches>>

\* The state once the component is mounted: the initial values of the
\* useState cells, and the three effects run once with make and model
\* empty (each sets its list to empty).
Init ==
    /\ variant \in {"v1", "v2"}
    /\ currentYear \in CalendarYears
    /\ formData = InitialFormData(currentYear)
    /\ loading = FALSE
    /\ error = ""
    /\ models = <<>>
    /\ trims = <<>>
    /\ years = <<>>
    /\ loadingModels = FALSE
    /\ loadingTrims = FALSE
    /\ predictionData = Null
    /\ modelFetches = EmptyBag
    /\ trimFetches = EmptyBag
    /\ predictInFlight = 0

Next ==
    \/ \E name \in FieldNames : \E value \in Offered(name) : handleChange(name, value)
    \/ \E make \in BagToSet(modelFetches) : fetchModelsResolved(make)
    \/ \E make \in BagToSet(modelFetches) : fetchModelsRejected(make)
    \/ \E key \in BagToSet(trimFetches) : fetchTrimsResolved(key)
    \/ \E key \in BagToSet(trimFetches) : fetchTrimsRejected(key)
    \/ handleSubmit
    \/ \E data \in PredictResponses : handleSubmitResolved(data)
    \/ handleSubmitRejected

Spec == Init /\ [][Next]_vars

\* The valuation endpoint answers or fails every request it is sent: the
\* return of an awaited valuation request is not postponed for ever.
ValuationReturns ==
    \/ \E data \in PredictResponses : handleSubmitResolved(data)
    \/ handleSubmitRejected

SpecLive == Spec /\ WF_vars(ValuationReturns)

\* ------------------------------------------------------------------
\* Valuation round trips on a form that is filled in, over the wider range
\* of valuation results: the state after the user chose Kia, Rio, typed the
\* mileage and the zip code, and every catalog fetch has been answered.
\* The user submits, and submits again; the backend answers or fails.

InitChart ==
    /\ variant \in {"v1", "v2"}
    /\ currentYear \in ChartCalendarYears
    /\ formData = [InitialFormData(currentYear) EXCEPT
                      !.make = "Kia", !.model = "Rio",
                      !.mileage = "42000", !.zip_code = "90210"]
    /\ loading = FALSE
    /\ error = ""
    /\ models = NormaliseModels(CatalogResults("Kia"), "Kia")
    /\ trims = Get(TrimsBackend("Kia", "Rio"))
    /\ years = YearsData(currentYear)
    /\ loadingModels = FALSE
    /\ loadingTrims = FALSE
    /\ predictionData = Null
    /\ modelFetches = EmptyBag
    /\ trimFetches = EmptyBag
    /\ predictInFlight = 0

NextChart ==
    \/ handleSubmit
    \/ \E data \in ChartResponses : handleSubmitResolved(data)
    \/ handleSubmitRejected

SpecChart == InitChart /\ [][NextChart]_vars

\* chartData as the mounted PredictionChart computes it from the
\* ValuationResult held.
chartData == PredictionChart(predictionData, currentYear)

\* 0.85^k
Curve(k) == MathPow(Rat(85, 100), k)

\* An optional field of the point at offset k is the same field at offset
\* 0 times 0.85^k (and is there at offset 0).
OnCurve(field, k) ==
    chartData[k + 1][field] # Null =>
        /\ chartData[1][field] # Null
        /\ RatEq(Get(chartData[k + 1][field]),
                 RatMul(Get(chartData[1][field]), Curve(k)))

\* C1: for every ValuationResult held and every offset k in 0..9, each
\* projection field that is present (predicted, mean, low, high) equals its
\* own value at offset 0 multiplied by 0.85^k: one curve for all fields.
C1_SharedCurve ==
    predictionData # Null =>
        \A k \in 0..9 :
            /\ RatEq(chartData[k + 1].predictedValue,
                     RatMul(chartData[1].predictedValue, Curve(k)))
            /\ OnCurve("meanValue", k)
            /\ OnCurve("lowRange", k)
            /\ OnCurve("highRange", k)

\* A result with every optional part present and positive is projected: the
\* estimate of 17,955 with its mean and its range.
C1_Witness ==
    /\ predictionData # Null
    /\ Get(predictionData).predicted_value = 17955
    /\ chartData[6].meanValue # Null
    /\ chartData[6].lowRange # Null
    /\ chartData[6].highRange # Null
    /\ RatLess(Rat(7966, 1), chartData[6].predictedValue)
    /\ RatLess(chartData[6].predictedValue, Rat(7967, 1))

\* C2: the projection of a ValuationResult has exactly 10 points, and the
\* point at index k carries the year label currentYear + k.
C2_TenConsecutiveYears ==
    predictionData # Null =>
        /\ Len(chartData) = 10
        /\ \A k \in 0..9 : chartData[k + 1].year = currentYear + k

C2_Witness ==
    /\ predictionData # Null
    /\ currentYear = 1999
    /\ chartData[10].year = 2008

\* C3: for a positive predicted value the projected predicted values are
\* strictly decreasing over k = 0..9 and each is strictly above zero.
C3_StrictlyDecreasingPositive ==
    (predictionData # Null /\ Get(predictionData).predicted_value > 0) =>
        /\ \A k \in 0..8 : RatLess(chartData[k + 2].predictedValue,
                                   chartData[k + 1].predictedValue)
        /\ \A k \in 0..9 : RatLess(RatZero, chartData[k + 1].predictedValue)

\* The smallest positive amount, one dollar, is projected.
C3_Witness ==
    /\ predictionData # Null
    /\ Get(predictionData).predicted_value = 1
    /\ RatLess(chartData[10].predictedValue, Rat(1, 4))

\* ------------------------------------------------------------------
\* Steps, by what they do to the requests awaited.

\* A valuation request is sent.
ValuationSent == predictInFlight' = predictInFlight + 1

\* A valuation request comes back, answered or failed.
ValuationDone == predictInFlight' = predictInFlight - 1

\* The catalog fetch issued for make m comes back.
ModelFetchDone(m) ==
    BagIn(m, modelFetches) /\ modelFetches' = modelFetches (-) SetToBag({m})

\* The trim fetch issued for key comes back.
TrimFetchDone(key) ==
    BagIn(key, trimFetches) /\ trimFetches' = trimFetches (-) SetToBag({key})

\* C4: from any form state, a change of the make field leaves the model
\* empty, the trim empty and the year equal to the current calendar year.
C4_MakeChangeResets ==
    [][formData'.make # formData.make =>
          /\ formData'.model = ""
          /\ formData'.trim = ""
          /\ formData'.year = currentYear']_vars

\* The make was changed to Ram after Rio had been picked under Kia (its
\* trim lookup is still awaited): model and trim are empty, the year is the
\* current one.
C4_Witness ==
    /\ formData.make = "Ram"
    /\ BagIn(<<"Kia", "Rio">>, trimFetches)
    /\ formData.model = ""
    /\ formData.trim = ""
    /\ formData.year = currentYear

\* C5 as stated: after a change of make the model, trim and year are all
\* empty; after a change of model the trim and year are both empty.
C5_DownstreamAllEmpty ==
    [][/\ formData'.make # formData.make =>
            formData'.model = "" /\ formData'.trim = "" /\ formData'.year = 0
       /\ formData'.model # formData.model =>
            formData'.trim = "" /\ formData'.year = 0]_vars

\* C5 as amended: after a change of make the model and trim are empty and
\* the year is the current calendar year; after a change of model the trim
\* is empty and the year is the current calendar year.
C5_DownstreamReset ==
    [][/\ formData'.make # formData.make =>
            /\ formData'.model = ""
            /\ formData'.trim = ""
            /\ formData'.year = currentYear'
       /\ formData'.model # formData.model =>
            /\ formData'.trim = ""
            /\ formData'.year = currentYear']_vars

\* Rio was picked under Kia and then the model was set back to none (the
\* trim lookup for Rio is still awaited, the make is still Kia).
C5_Witness ==
    /\ formData.make = "Kia"
    /\ formData.model = ""
    /\ BagIn(<<"Kia", "Rio">>, trimFetches)
    /\ ~BagIn("Kia", modelFetches)
    /\ formData.trim = ""
    /\ formData.year = currentYear

\* The 30 most recent years, the current one first.
ThirtyRecentYears(list, yearNow) ==
    /\ Len(list) = 30
    /\ \A i \in 1..29 : list[i] > list[i + 1]
    /\ list[1] = yearNow
    /\ Range(list) = (yearNow - 29)..yearNow

\* C6: whenever a model is selected the year list holds exactly 30 distinct
\* years in strictly descending order, currentYear down to currentYear - 29,
\* and it is produced locally: it changes in the step that changes the
\* model, never in a step that delivers a response.
C6_YearList ==
    [][/\ formData'.model # "" => ThirtyRecentYears(years', currentYear')
       /\ years' # years =>
            /\ formData'.model # formData.model
            /\ BagCardinality(modelFetches') >= BagCardinality(modelFetches)
            /\ BagCardinality(trimFetches') >= BagCardinality(trimFetches)
            /\ predictInFlight' >= predictInFlight]_vars

C6_Witness ==
    /\ formData.model = "Rio"
    /\ Len(years) = 30
    /\ years[30] = currentYear - 29

\* The list a dropdown should hold for the current selection.
ModelsFor(make) == NormaliseModels(CatalogResults(make), make)
TrimsFor(make, model) ==
    IF TrimsBackend(make, model) # Null THEN Get(TrimsBackend(make, model)) ELSE <<>>

\* C7: once every fetch for a list has come back, the list held is the
\* response of the fetch issued for the current field value (its names, or
\* nothing when that fetch failed), whatever the order of arrival.
C7_CurrentResponseWins ==
    /\ (modelFetches = EmptyBag /\ formData.make # "") =>
            models \in {ModelsFor(formData.make), <<>>}
    /\ (trimFetches = EmptyBag /\ formData.make # "" /\ formData.model # "") =>
            trims \in {TrimsFor(formData.make, formData.model), <<>>}

\* C8: when a valuation request fails, the ValuationResult held is left as
\* it was and an error string is shown to the user.
C8_FailureKeepsChartShowsError ==
    [][(ValuationDone /\ error' = ErrPredict) =>
          /\ predictionData' = predictionData
          /\ errorShown']_vars

\* C9: a model fetch that comes back either delivers its names or, having
\* failed, leaves the model list empty and the models error message set;
\* likewise a trim fetch for the trim list; and in every case the loading
\* flag of that list is false afterwards.
C9_FetchFailureResets ==
    [][/\ BagCardinality(modelFetches') < BagCardinality(modelFetches) =>
            /\ loadingModels' = FALSE
            /\ \/ models' = <<>> /\ error' = ErrModels
               \/ \E m \in BagToSet(modelFetches) :
                     ModelFetchDone(m) /\ models' = ModelsFor(m) /\ error' = error
       /\ BagCardinality(trimFetches') < BagCardinality(trimFetches) =>
            /\ loadingTrims' = FALSE
            /\ \/ trims' = <<>> /\ error' = ErrTrims
               \/ \E key \in BagToSet(trimFetches) :
                     /\ TrimFetchDone(key)
                     /\ trims' = TrimsFor(key[1], key[2])
                     /\ error' = error]_vars

\* The trim lookup for Kia Rio has failed: no trims, the message, and the
\* Trim dropdown is enabled again.
C9_Witness ==
    /\ formData.make = "Kia"
    /\ formData.model = "Rio"
    /\ error = ErrTrims
    /\ trims = <<>>
    /\ trimFetches = EmptyBag
    /\ ~trimSelectDisabled

\* C10: a valuation request is sent only with make, model and year
\* populated.
C10_RequestHasMakeModelYear ==
    [][ValuationSent =>
          /\ predictRequest(formData).make # ""
          /\ predictRequest(formData).model # ""
          /\ predictRequest(formData).year # 0]_vars

\* A request for a Kia Rio of last year is awaited.
C10_Witness ==
    /\ predictInFlight = 1
    /\ loading
    /\ formData.make = "Kia"
    /\ formData.model = "Rio"
    /\ formData.year = currentYear - 1

\* ------------------------------------------------------------------
\* Submissions of a form whose two text fields hold any of a wider range of
\* texts: the state after the user chose Kia, Rio, typed the mileage and the
\* zip code (or left them empty), and every catalog fetch has been answered.

InitRequest ==
    /\ variant \in {"v1", "v2"}
    /\ currentYear \in CalendarYears
    /\ \E mileage \in MileageTexts, zip \in ZipTexts :
         formData = [InitialFormData(currentYear) EXCEPT
                        !.make = "Kia", !.model = "Rio",
                        !.mileage = mileage, !.zip_code = zip]
    /\ loading = FALSE
    /\ error = ""
    /\ models = NormaliseModels(CatalogResults("Kia"), "Kia")
    /\ trims = Get(TrimsBackend("Kia", "Rio"))
    /\ years = YearsData(currentYear)
    /\ loadingModels = FALSE
    /\ loadingTrims = FALSE
    /\ predictionData = Null
    /\ modelFetches = EmptyBag
    /\ trimFetches = EmptyBag
    /\ predictInFlight = 0

NextRequest ==
    \/ handleSubmit
    \/ \E data \in PredictResponses : handleSubmitResolved(data)
    \/ handleSubmitRejected

SpecRequest == InitRequest /\ [][NextRequest]_vars

\* The number each mileage text stands for, as a fraction.
MileageMeaning(text) ==
    CASE text = "0" -> <<0, 1>>
      [] text = "007" -> <<7, 1>>
      [] text = "42000" -> <<42000, 1>>
      [] text = "12.5" -> <<25, 2>>
      [] text = "-5" -> <<0 - 5, 1>>

\* C11: in the valuation request sent, an empty mileage field is null and
\* not zero, a non-empty mileage is the number its text stands for, and the
\* zip code is the text of the field, character for character.
C11_RequestMileageAndZip ==
    [][ValuationSent =>
          LET request == predictRequest(formData)
          IN  /\ formData.mileage = "" => request.mileage = Null
              /\ formData.mileage # "" =>
                    /\ request.mileage # Null
                    /\ Get(request.mileage).num * MileageMeaning(formData.mileage)[2]
                         = MileageMeaning(formData.mileage)[1] * Get(request.mileage).den
              /\ request.zip_code = formData.zip_code]_vars

\* A request is awaited that was sent with the mileage left empty and a zip
\* code with a leading zero.
C11_Witness ==
    /\ predictInFlight = 1
    /\ formData.mileage = ""
    /\ formData.zip_code = "02134"
    /\ predictRequest(formData).mileage = Null

\* ------------------------------------------------------------------
\* The normalisation of a catalog response, over a range of responses: the
\* state after the user chose a make, whose model fetch is awaited; the
\* catalog answers with any of the sample responses.

InitNormalise ==
    /\ variant \in {"v1", "v2"}
    /\ currentYear \in CalendarYears
    /\ \E make \in Makes :
         /\ formData = [InitialFormData(currentYear) EXCEPT !.make = make]
         /\ modelFetches = SetToBag({make})
    /\ loading = FALSE
    /\ error = ""
    /\ models = <<>>
    /\ trims = <<>>
    /\ years = <<>>
    /\ loadingModels = TRUE
    /\ loadingTrims = FALSE
    /\ predictionData = Null
    /\ trimFetches = EmptyBag
    /\ predictInFlight = 0

NextNormalise ==
    \E make \in BagToSet(modelFetches) : \E results \in CatalogSamples :
        fetchModelsDelivered(make, results)

SpecNormalise == InitNormalise /\ [][NextNormalise]_vars

\* C12: after normalisation of a catalog response for a make, the model
\* list has no empty name, is sorted, and no name in it still begins with
\* the make name; and the names "Corolla Corolla LE", "Corolla" for make
\* "Corolla" yield exactly "LE".
C12_NormalisedList ==
    (modelFetches = EmptyBag /\ formData.make # "") =>
        /\ \A i \in 1..Len(models) : models[i] # ""
        /\ \A i \in 1..Len(models) : \A j \in 1..Len(models) :
              i < j => ~localeLess(models[j], models[i])
        /\ \A i \in 1..Len(models) : ~startsWith(models[i], formData.make)
        /\ NormaliseModels(<<"Corolla Corolla LE", "Corolla">>, "Corolla") = <<"LE">>

\* ------------------------------------------------------------------
\* The series of the mounted chart.

\* The lines the mounted PredictionChart draws for the ValuationResult held.
linesDrawn == IF predictionData = Null THEN {} ELSE Lines(Get(predictionData))

\* A series is there: its line is drawn and every point has a value for it.
SeriesPresent(key) ==
    /\ key \in linesDrawn
    /\ \A k \in 1..Len(chartData) : chartData[k][key] # Null

\* A series is not there: no line, and no point has a value for it.
SeriesAbsent(key) ==
    /\ key \notin linesDrawn
    /\ \A k \in 1..Len(chartData) : chartData[k][key] = Null

\* C13 as stated: for every ValuationResult whose price range is absent, the
\* chart draws the predicted-value series and no other series.
C13_PredictedAlone ==
    (predictionData # Null /\ Get(predictionData).price_range = Null) =>
        linesDrawn = {"predictedValue"}

\* C13 as amended: for every ValuationResult whose price range is absent,
\* the chart draws the predicted-value series, draws neither the low nor
\* the high series, and draws the mean series exactly when a mean value
\* other than 0 is present; the projection has its ten points.
C13_NoRangeSeries ==
    (predictionData # Null /\ Get(predictionData).price_range = Null) =>
        /\ "predictedValue" \in linesDrawn
        /\ SeriesAbsent("lowRange")
        /\ SeriesAbsent("highRange")
        /\ IF Truthy(Get(predictionData).mean_value)
           THEN SeriesPresent("meanValue") ELSE SeriesAbsent("meanValue")
        /\ Len(chartData) = ProjectionLength

\* A result with a mean and without a range is held: two lines.
C13_Witness ==
    /\ predictionData # Null
    /\ Get(predictionData).price_range = Null
    /\ Get(predictionData).mean_value = Some(18500)
    /\ linesDrawn = {"predictedValue", "meanValue"}

\* C14: each of the mean, low and high series is present exactly when its
\* input (mean_value, price_range.low, price_range.high) is present in the
\* ValuationResult, whatever the value of that input, 0 included.
C14_SeriesIffInputPresent ==
    predictionData # Null =>
        LET data == Get(predictionData)
        IN  /\ IF data.mean_value # Null
               THEN SeriesPresent("meanValue") ELSE SeriesAbsent("meanValue")
            /\ IF data.price_range # Null
               THEN SeriesPresent("lowRange") ELSE SeriesAbsent("lowRange")
            /\ IF data.price_range # Null
               THEN SeriesPresent("highRange") ELSE SeriesAbsent("highRange")

\* ------------------------------------------------------------------
\* Editing alone, with every field editable both ways: the dropdowns as the
\* form offers them, any of the four conditions, the two text fields typed
\* and cleared.  Fetches are answered; nothing is submitted.

EditOffered(name) ==
    CASE name = "mileage" -> MileageInputs \cup {""}
      [] name = "condition" -> Range(conditions)
      [] name = "zip_code" -> ZipInputs \cup {""}
      [] OTHER -> Offered(name)

NextEdit ==
    \/ \E name \in FieldNames : \E value \in EditOffered(name) :
          changeEvent(name, value)
    \/ \E make \in BagToSet(modelFetches) : fetchModelsResolved(make)
    \/ \E key \in BagToSet(trimFetches) : fetchTrimsResolved(key)

SpecEdit == Init /\ [][NextEdit]_vars

\* C15: a single user action starts at most one network call per dependent
\* field.  Selecting a make other than none starts exactly one model fetch,
\* for that make, and no trim fetch; selecting a model other than none
\* starts exactly one trim fetch, for that make and model, no model fetch,
\* and leaves the year list regenerated; a change of trim, year, mileage,
\* condition or zip code starts no fetch; setting the make to none starts
\* no fetch and empties the model list; setting the model to none starts no
\* fetch and empties the trim list.
C15_OneFetchPerAction ==
    [][/\ (formData'.make # formData.make /\ formData'.make # "") =>
            /\ modelFetches' = modelFetches (+) SetToBag({formData'.make})
            /\ trimFetches' = trimFetches
       /\ (formData'.model # formData.model /\ formData'.model # "") =>
            /\ trimFetches' = trimFetches
                    (+) SetToBag({<<formData'.make, formData'.model>>})
            /\ modelFetches' = modelFetches
            /\ ThirtyRecentYears(years', currentYear')
       /\ (/\ formData' # formData
           /\ formData'.make = formData.make
           /\ formData'.model = formData.model) =>
            /\ modelFetches' = modelFetches
            /\ trimFetches' = trimFetches
       /\ (formData'.make # formData.make /\ formData'.make = "") =>
            /\ modelFetches' = modelFetches
            /\ trimFetches' = trimFetches
            /\ models' = <<>>
       /\ (/\ formData'.make = formData.make
           /\ formData'.model # formData.model
           /\ formData'.model = "") =>
            /\ modelFetches' = modelFetches
            /\ trimFetches' = trimFetches
            /\ trims' = <<>>]_vars

\* Rio has just been picked under Kia, after the condition and the zip code
\* were edited: one trim fetch is awaited and the years are listed.
C15_Witness ==
    /\ formData.make = "Kia"
    /\ formData.model = "Rio"
    /\ formData.condition = "Poor"
    /\ formData.zip_code = "90210"
    /\ modelFetches = EmptyBag
    /\ trimFetches = SetToBag({<<"Kia", "Rio">>})
    /\ Len(years) = 30

\* Requests awaited, of the three kinds together.
Awaited == BagCardinality(modelFetches) + BagCardinality(trimFetches) + predictInFlight

\* The step is a user action: a field changes, or a submission begins (the
\* form goes from idle to loading).
FieldChangeStep == formData' # formData
SubmitStep == ~loading /\ loading'

\* C16: no network call is started except by a user action.  None is
\* awaited when the form is mounted; and every step that is not a field
\* change or the start of a submission is the return of exactly one awaited
\* request and starts none: after a failure nothing is sent again.
C16_CallsOnlyFromUserActions ==
    /\ Awaited = 0
    /\ [][\/ FieldChangeStep
          \/ SubmitStep
          \/ /\ Awaited' = Awaited - 1
             /\ BagCardinality(modelFetches') <= BagCardinality(modelFetches)
             /\ BagCardinality(trimFetches') <= BagCardinality(trimFetches)
             /\ predictInFlight' <= predictInFlight]_vars

\* A valuation request has failed and nothing is awaited.
C16_Witness ==
    /\ error = ErrPredict
    /\ ~loading
    /\ Awaited = 0

\* C17: no error is fatal.  Every valuation request being answered or
\* failed in the end, whenever the form is loading it is later not loading,
\* on success and on failure alike; and whenever it is not loading and
\* make, model and year are populated, the submit button is enabled.
C17_LoadingEnds ==
    /\ loading ~> ~loading
    /\ [](( /\ ~loading
            /\ formData.make # ""
            /\ formData.model # ""
            /\ formData.year # 0) => ~submitDisabled)

\* A submission has failed, and the form, still filled in, can be submitted
\* again.
C17_Witness ==
    /\ error = ErrPredict
    /\ ~loading
    /\ formData.make # ""
    /\ formData.model # ""
    /\ ~submitDisabled
    /\ formValid

\* ------------------------------------------------------------------
\* The whole form, the valuation endpoint answering with either of two
\* results.

NextResults ==
    \/ \E name \in FieldNames : \E value \in Offered(name) : handleChange(name, value)
    \/ \E make \in BagToSet(modelFetches) : fetchModelsResolved(make)
    \/ \E make \in BagToSet(modelFetches) : fetchModelsRejected(make)
    \/ \E key \in BagToSet(trimFetches) : fetchTrimsResolved(key)
    \/ \E key \in BagToSet(trimFetches) : fetchTrimsRejected(key)
    \/ handleSubmit
    \/ \E data \in ResultSamples : handleSubmitResolved(data)
    \/ handleSubmitRejected

SpecResults == Init /\ [][NextResults]_vars

\* C18: the ValuationResult held changes only in a step in which a
\* valuation request returns successfully (the error message is left as it
\* was), and is then one of the endpoint's responses, whole; a field change,
\* the return of a model or trim fetch, the start of a submission and a
\* failed submission leave it as it was.
C18_ResultOnlyReplacedOnSuccess ==
    [][/\ predictionData' # predictionData =>
            /\ ValuationDone
            /\ error' = error
            /\ predictionData' \in {Some(data) : data \in ResultSamples}
       /\ (\/ FieldChangeStep
           \/ SubmitStep
           \/ BagCardinality(modelFetches') < BagCardinality(modelFetches)
           \/ BagCardinality(trimFetches') < BagCardinality(trimFetches)
           \/ ValuationDone /\ error' = ErrPredict) =>
            predictionData' = predictionData]_vars

\* The result without optional parts is held, and the submission after it
\* has failed.
C18_Witness ==
    /\ predictionData = Some(Valuation(9000, Null, Null))
    /\ error = ErrPredict
    /\ ~loading

\* C19: when a submission completes, successfully or not, the form fields
\* are back at their fresh initial values.
C19_FormDiscardedAfterSubmission ==
    [][ValuationDone => formData' = InitialFormData(currentYear')]_vars

\* C20: in every reachable state the selections respect the cascade: a
\* trim other than none implies a model other than none, and a model other
\* than none implies a make other than none.
C20_CascadeOrder ==
    /\ formData.trim # "" => formData.model # ""
    /\ formData.model # "" => formData.make # ""

\* TrimSelected: make, model and trim are all chosen.
C20_Witness ==
    /\ formData.make = "Kia"
    /\ formData.model = "Rio"
    /\ formData.trim = "LX"

\* ---------------------------------------------------------------------
\* C21: loadingModels is true in every state in which a model-list fetch
\* is awaited, and loadingTrims is true in every state in which a
\* trim-list fetch is awaited, overlapping fetches of one list included.
C21_LoadingWhileInFlight ==
    /\ modelFetches # EmptyBag => loadingModels
    /\ trimFetches # EmptyBag => loadingTrims

\* ---------------------------------------------------------------------
\* C22: once no fetch is awaited, an empty make implies an empty model
\* list and an empty model implies an empty trim list.
C22_ClearedStaysCleared ==
    InFlight = 0 =>
        /\ formData.make = "" => models = <<>>
        /\ formData.model = "" => trims = <<>>

\* ---------------------------------------------------------------------
\* C23: every valuation request that is sent carries a model that is an
\* entry of the model list the catalog returned for the make carried in
\* that same request.
C23_RequestModelBelongsToMake ==
    [][ValuationSent =>
         predictRequest(formData).model
            \in Range(ModelsFor(predictRequest(formData).make))]_vars

\* ---------------------------------------------------------------------
\* C24: at most one valuation request is awaited at any time; while one
\* is awaited the submit control is disabled, and some field's control
\* still offers the user a new value.
C24_OneValuationAtATime ==
    /\ predictInFlight <= 1
    /\ predictInFlight > 0 =>
          /\ submitDisabled
          /\ \E name \in FieldNames : Offered(name) \ {formData[name]} # {}

\* A request is awaited and the make, which was chosen when the request
\* was sent, has been cleared during the wait.
C24_Witness ==
    /\ predictInFlight = 1
    /\ submitDisabled
    /\ formData.make = ""

\* ---------------------------------------------------------------------
\* A fetch or a valuation request comes back and its data is stored.
DataDelivered ==
    \/ (\E m \in Makes : ModelFetchDone(m)) /\ models' # <<>>
    \/ (\E key \in BagToSet(trimFetches) : TrimFetchDone(key)) /\ trims' # <<>>
    \/ ValuationDone /\ predictionData' # predictionData

\* A fetch or a valuation request comes back failed: its list is emptied,
\* or the result is left as it was, and its message becomes the error.
CallFailed ==
    \/ (\E m \in Makes : ModelFetchDone(m))
          /\ models' = <<>> /\ error' = ErrModels
    \/ (\E key \in BagToSet(trimFetches) : TrimFetchDone(key))
          /\ trims' = <<>> /\ error' = ErrTrims
    \/ ValuationDone /\ predictionData' = predictionData /\ error' = ErrPredict

\* C25: the error message is empty when the form is mounted; starting a
\* submission clears it, only a failed fetch or a failed valuation request
\* sets it, and no field edit and no successful response changes it, so
\* it is non-empty only if a call has failed since the most recent
\* submission started.  (A step that changes the message is no field edit
\* and stores no data; it starts a submission and empties the message, or
\* it is a failure.)
C25_ErrorSetOnlyByFailure ==
    /\ error = ""
    /\ [][/\ SubmitStep => error' = ""
          /\ error' # error =>
                /\ ~FieldChangeStep
                /\ ~DataDelivered
                /\ (SubmitStep /\ error' = "") \/ CallFailed]_vars

\* A submission has started, which cleared the message, and a model fetch
\* has failed during the wait for the valuation.
C25_Witness ==
    /\ loading
    /\ predictInFlight = 1
    /\ error = ErrModels

====
